---- MODULE Spec2Model ----
(***************************************************************************)
(* A model of peony's client core:                                         *)
(*   - utils.handler_decorator / utils.error_handler (the retry wrapper),  *)
(*   - BasePeonyClient.request (one REST call),                            *)
(*   - BasePeonyClient.__getitem__ (resolution of client[...]).            *)
(* Strings are sequences of one-character strings; a format placeholder    *)
(* such as {api} is a single element of a template.                        *)
(***************************************************************************)
EXTENDS Integers, Sequences, FiniteSets, TLC

(***************************************************************************)
(* Bounds of the model.                                                    *)
(***************************************************************************)
\* the wrapped operation is invoked at most this many times in one call
MaxInvocations == 4
\* a call in flight beside another invokes request at most this many times
MaxAttempts == 2
\* a response payload has at most this many members
MaxMembers == 2
\* an instance has at most this many task functions, and as many streams
MaxTasks == 2
\* a tuple or list given to client[...] has at most this many elements
MaxKeyLen == 5
\* reset_in ranges over -MaxResetIn .. MaxResetIn seconds
MaxResetIn == 5
\* durations are counted in units of 1/Scale second, so that a reset_in
\* that is not a whole number of seconds is representable
Scale == 2

VARIABLES
    \* ---- utils.error_handler: one call of the (possibly) decorated request
    wpc,             \* "idle", "request", "sleep", "returned", "raised"
    error_handling,  \* the flag given to handler_decorator.__call__
    invocations,     \* how many times the wrapped operation was invoked
    failure,         \* the last failure the wrapped operation raised
    nTimeout,        \* Timeout failures of the wrapped operation so far
    nRateLimited,    \* RateLimitExceeded failures so far
    nOther,          \* failures of any other kind so far
    nSleep,          \* asyncio.sleep calls so far
    delay,           \* the argument of the last asyncio.sleep, in seconds
    slept,           \* the seconds the last finished asyncio.sleep took
    returned,        \* what the operation returned on its last invocation
    result           \* what the call gave its caller: a value or a failure

retryVars == <<wpc, error_handling, invocations, failure, nTimeout,
               nRateLimited, nOther, nSleep, delay, slept, returned, result>>

VARIABLES
    \* ---- BasePeonyClient.request: one REST call
    rpc,         \* "idle", "sending", "json", "text", "throw", "returned",
                 \* "raised": where the coroutine is suspended or how it ended
    json_arg,    \* the json argument as the caller gave it, or "unset"
    json,        \* the value of the json parameter inside request
    url,         \* the url parameter
    req_kwargs,  \* the request arguments prepare_request returned
    session,     \* "none", "open", "closed": the aiohttp.ClientSession
    status,      \* response.status, 0 before there is a response
    body,        \* the raw body of the response
    resp_headers,\* response.headers
    content,     \* what response.json or response.text returned
    envelope,    \* the PeonyResponse that request returned
    exc,         \* the failure that request raised
    raised_at    \* the await that raised it

requestVars == <<rpc, json_arg, json, url, req_kwargs, session, status, body,
                 resp_headers, content, envelope, exc, raised_at>>

VARIABLES
    \* ---- BasePeonyClient.__init__ and BasePeonyClient.__getitem__
    cpc,            \* "new" before __init__, "ready" after it
    api_version,    \* self.api_version
    suffix,         \* self._suffix
    base_url,       \* self.base_url, a format template
    streaming_apis, \* self.streaming_apis
    arg,            \* the key of the last client[key], as it was given
    key,            \* the caller's key object after client[key]
    path            \* the path object client[key] returned, or its error

clientVars == <<cpc, api_version, suffix, base_url, streaming_apis, arg, key,
                path>>

VARIABLES
    \* ---- PeonyClient.get_tasks and PeonyClient.get_task
    task_funcs,   \* the tasks of the attributes that are peony.task objects
    has_streams,  \* whether self._streams is an EventStreams
    stream_tasks, \* the tasks self._streams.get_tasks(self) gives
    task_result   \* what the last get_task returned or raised

tasksVars == <<task_funcs, has_streams, stream_tasks, task_result>>

VARIABLES
    \* ---- utils.JSONObject
    obj,      \* the contents of the object: key -> value, Missing if no key
    built,    \* the contents the object was constructed with
    outcome   \* how the last operation on the object ended

jsonVars == <<obj, built, outcome>>

VARIABLES
    \* ---- utils.PeonyResponse
    env,      \* the instance's own attributes: response, headers, url, request
    last      \* the last operation on the instance and what it gave

envVars == <<env, last>>

VARIABLES
    \* ---- calls of the decorated request in flight on one event loop
    calls     \* call -> the local variables of its decorated_request and of
              \* the request it is awaiting

callsVars == <<calls>>

vars == <<retryVars, requestVars, clientVars, tasksVars, jsonVars, envVars,
          callsVars>>

otherThanRetry ==
    <<requestVars, clientVars, tasksVars, jsonVars, envVars, callsVars>>
otherThanRequest ==
    <<retryVars, clientVars, tasksVars, jsonVars, envVars, callsVars>>
otherThanClient ==
    <<retryVars, requestVars, tasksVars, jsonVars, envVars, callsVars>>
otherThanTasks ==
    <<retryVars, requestVars, clientVars, jsonVars, envVars, callsVars>>
otherThanJson ==
    <<retryVars, requestVars, clientVars, tasksVars, envVars, callsVars>>
otherThanEnv ==
    <<retryVars, requestVars, clientVars, tasksVars, jsonVars, callsVars>>
otherThanCalls ==
    <<retryVars, requestVars, clientVars, tasksVars, jsonVars, envVars>>

----------------------------------------------------------------------------
(***************************************************************************)
(* utils.py: handler_decorator and error_handler                           *)
(***************************************************************************)

\* results a wrapped operation can return
Results == {"r1", "r2"}

\* failures that are neither asyncio.TimeoutError nor RateLimitExceeded
OtherFailures == {"ClientError", "ServerError", "Malformed", "Exception",
                  "CancelledError"}

\* reset_in of a RateLimitExceeded, in units of 1/Scale second
ResetIns == (0 - MaxResetIn * Scale) .. (MaxResetIn * Scale)

NoFailure == [kind |-> "none", reset_in |-> 0]
Timeout == [kind |-> "Timeout", reset_in |-> 0]
RateLimited(r) == [kind |-> "RateLimited", reset_in |-> r]
Other(k) == [kind |-> k, reset_in |-> 0]

Failures == {Timeout} \cup {RateLimited(r) : r \in ResetIns}
                \cup {Other(k) : k \in OtherFailures}

NoResult == [kind |-> "none", value |-> "none", failure |-> NoFailure]
Value(v) == [kind |-> "value", value |-> v, failure |-> NoFailure]
Raised(f) == [kind |-> "raised", value |-> "none", failure |-> f]

\* int(x) of a duration x given in units of 1/Scale second: Python's int()
\* truncates toward zero
int(x) == IF x >= 0 THEN x \div Scale ELSE 0 - ((0 - x) \div Scale)

\* handler_decorator.__call__ without its else branch
handler_decorator_always(flag) == "decorated_request"

\* handler_decorator.__call__: the function the caller gets
handler_decorator(flag) ==
    IF flag THEN "decorated_request" ELSE "request"

\* the except clauses with the asyncio.TimeoutError clause missing
except_clause_no_timeout(f) ==
    CASE f.kind = "RateLimited" -> "sleep"
      [] OTHER -> "raise"

\* the except clauses with a swallowing bare except
except_clause_swallow(f) ==
    CASE f.kind = "RateLimited" -> "sleep"
      [] f.kind = "Timeout" -> "retry"
      [] OTHER -> "retry"

\* the except clauses with the two handlers taken for one another
except_clause_sleep_on_timeout(f) ==
    CASE f.kind = "RateLimited" -> "sleep"
      [] f.kind = "Timeout" -> "sleep"
      [] OTHER -> "raise"

\* the except clauses of decorated_request, in their order
except_clause(f) ==
    CASE f.kind = "RateLimited" -> "sleep"
      [] f.kind = "Timeout" -> "retry"
      [] OTHER -> "raise"

\* delay without the one-second margin
sleep_delay_no_margin(f) == int(f.reset_in)

\* delay = int(e.reset_in) + 1, in seconds
sleep_delay(f) == int(f.reset_in) + 1

\* await asyncio.sleep(delay): a delay that is not positive yields once and
\* returns, so the time slept is max(delay, 0) seconds
sleep_time(d) == IF d > 0 THEN d ELSE 0

\* what the caller's function does with a failure of the operation
Reaction(f) ==
    IF handler_decorator(error_handling) = "decorated_request"
    THEN except_clause(f)
    ELSE "raise"

\* the caller calls the function handler_decorator gave it, which invokes
\* the wrapped operation for the first time
Call(flag) ==
    /\ wpc = "idle"
    /\ wpc' = "request"
    /\ error_handling' = flag
    /\ invocations' = 1
    /\ UNCHANGED <<failure, nTimeout, nRateLimited, nOther, nSleep, delay, slept,
                   returned, result>>

\* return await request(**kwargs)
ReturnResult(v) ==
    /\ wpc = "request"
    /\ wpc' = "returned"
    /\ returned' = v
    /\ result' = Value(v)
    /\ UNCHANGED <<error_handling, invocations, failure, nTimeout,
                   nRateLimited, nOther, nSleep, delay, slept>>

\* bookkeeping of the failures the operation raised
Count(f) ==
    /\ failure' = f
    /\ nTimeout' = nTimeout + (IF f.kind = "Timeout" THEN 1 ELSE 0)
    /\ nRateLimited' = nRateLimited + (IF f.kind = "RateLimited" THEN 1 ELSE 0)
    /\ nOther' = nOther + (IF f.kind \in OtherFailures THEN 1 ELSE 0)

\* except asyncio.TimeoutError: print, then the loop invokes the operation again
RetryTimeout(f) ==
    /\ wpc = "request"
    /\ Reaction(f) = "retry"
    /\ invocations < MaxInvocations
    /\ Count(f)
    /\ invocations' = invocations + 1
    /\ UNCHANGED <<wpc, error_handling, nSleep, delay, slept, returned, result>>

\* except exceptions.RateLimitExceeded: await asyncio.sleep(delay)
SleepRateLimited(f) ==
    /\ wpc = "request"
    /\ Reaction(f) = "sleep"
    /\ Count(f)
    /\ wpc' = "sleep"
    /\ delay' = sleep_delay(f)
    /\ nSleep' = nSleep + 1
    /\ UNCHANGED <<error_handling, invocations, slept, returned, result>>

\* asyncio.sleep returns and the loop invokes the operation again
Wake ==
    /\ wpc = "sleep"
    /\ invocations < MaxInvocations
    /\ wpc' = "request"
    /\ invocations' = invocations + 1
    /\ slept' = sleep_time(delay)
    /\ UNCHANGED <<error_handling, failure, nTimeout, nRateLimited, nOther,
                   nSleep, delay, returned, result>>

\* except: raise  (or no handler at all when error_handling is false)
Propagate(f) ==
    /\ wpc = "request"
    /\ Reaction(f) = "raise"
    /\ Count(f)
    /\ wpc' = "raised"
    /\ result' = Raised(f)
    /\ UNCHANGED <<error_handling, invocations, nSleep, delay, slept, returned>>

\* the caller cancels the call while it sleeps: asyncio.sleep raises
\* CancelledError outside the try block
CancelSleep ==
    /\ wpc = "sleep"
    /\ wpc' = "raised"
    /\ result' = Raised(Other("CancelledError"))
    /\ UNCHANGED <<error_handling, invocations, failure, nTimeout,
                   nRateLimited, nOther, nSleep, delay, slept, returned>>

RetryIdle ==
    /\ wpc = "idle"
    /\ error_handling = TRUE
    /\ invocations = 0
    /\ failure = NoFailure
    /\ nTimeout = 0
    /\ nRateLimited = 0
    /\ nOther = 0
    /\ nSleep = 0
    /\ delay = 0
    /\ slept = 0
    /\ returned = "none"
    /\ result = NoResult

NextRetry ==
    \/ \E flag \in BOOLEAN : Call(flag) /\ UNCHANGED otherThanRetry
    \/ \E v \in Results : ReturnResult(v) /\ UNCHANGED otherThanRetry
    \/ \E f \in Failures : RetryTimeout(f) /\ UNCHANGED otherThanRetry
    \/ \E f \in Failures : SleepRateLimited(f) /\ UNCHANGED otherThanRetry
    \/ Wake /\ UNCHANGED otherThanRetry
    \/ \E f \in Failures : Propagate(f) /\ UNCHANGED otherThanRetry
    \/ CancelSleep /\ UNCHANGED otherThanRetry

----------------------------------------------------------------------------
(***************************************************************************)
(* client.py: BasePeonyClient.request                                      *)
(***************************************************************************)

\* ".json", the suffix request looks for at the end of the url
JsonSuffix == <<".", "j", "s", "o", "n">>

\* the urls a call is made with: with the suffix at the end, without it,
\* with it in the middle, with a prefix of it at the end
Urls == { <<"u">> \o JsonSuffix,
          <<"u">>,
          JsonSuffix \o <<"u">>,
          <<"u", ".", "j", "s">> }

Methods == {"get", "post"}

\* the json argument: left out, or given as True, False or None
JsonArgs == {"unset", "True", "False", "None"}

\* the headers argument: None or one custom header
HeaderArgs == { {}, {"X-Custom"} }

\* response.status
Statuses == {100, 199, 200, 204, 299, 300, 304, 404, 429, 500}

\* raw response bodies: two that the loads function decodes and one that
\* makes it raise
Bodies == {"{\"id\": 1}", "[]", "<html>"}
Decodable == {"{\"id\": 1}", "[]"}
RespHeaders == {"h1", "h2"}

\* failures an await inside request can raise besides the response's own:
\* the task is cancelled (by aiohttp.Timeout or by the caller) or the
\* transport fails
AwaitFailures == {"CancelledError", "Exception"}

NoContent == [decoded |-> FALSE, raw |-> "none"]
NoEnvelope == [response |-> NoContent, headers |-> "none", url |-> <<>>,
               request |-> [method |-> "none", url |-> <<>>, headers |-> {}]]

\* str.endswith
endswith(s, end) ==
    /\ Len(s) >= Len(end)
    /\ SubSeq(s, Len(s) - Len(end) + 1, Len(s)) = end

\* the default of the json parameter: json=False
json_default(given) == IF given = "unset" THEN "False" ELSE given

\* truth value of the json parameter
truthy(j) == j = "True"

\* the decoding test without its "json is not None" part
decode_as_json_ignoring_none(j, u) ==
    truthy(j) \/ endswith(u, JsonSuffix)

\* json or url.endswith(".json") and json is not None
decode_as_json(j, u) ==
    truthy(j) \/ (endswith(u, JsonSuffix) /\ j # "None")

\* the status test taken as "not an error status"
is_2xx_or_less(st) == st \div 100 <= 2

\* response.status // 100 == 2
is_2xx(st) == st \div 100 = 2

\* self.headers.prepare_request: the request arguments, with the
\* authorization header added to the caller's headers
prepare_request(m, u, h) ==
    [method |-> m, url |-> u, headers |-> h \cup {"Authorization"}]

\* exceptions.throw: the failure raised for a response that is not 2xx
throw(st, r) ==
    CASE st = 429 -> RateLimited(r)
      [] st >= 400 /\ st < 500 -> Other("ClientError")
      [] st >= 500 /\ st < 600 -> Other("ServerError")
      [] OTHER -> Other("Exception")

\* utils.PeonyResponse(response=content, headers=response.headers,
\*                     url=response.url, request=req_kwargs)
PeonyResponse(c, h, u, r) ==
    [response |-> c, headers |-> h, url |-> u, request |-> r]

\* request is called: the arguments are prepared, the session is opened and
\* session.request is awaited
Request(m, u, h, j) ==
    /\ rpc = "idle"
    /\ rpc' = "sending"
    /\ json_arg' = j
    /\ json' = json_default(j)
    /\ url' = u
    /\ req_kwargs' = prepare_request(m, u, h)
    /\ session' = "open"
    /\ UNCHANGED <<status, body, resp_headers, content, envelope, exc,
                   raised_at>>

\* the response arrives: its status selects the await that follows
Respond(st, b, h) ==
    /\ rpc = "sending"
    /\ status' = st
    /\ body' = b
    /\ resp_headers' = h
    /\ rpc' = IF is_2xx(st)
              THEN IF decode_as_json(json, url) THEN "json" ELSE "text"
              ELSE "throw"
    /\ UNCHANGED <<json_arg, json, url, req_kwargs, session, content,
                   envelope, exc, raised_at>>

\* leaving the two async with blocks with a PeonyResponse
Return(c) ==
    /\ rpc' = "returned"
    /\ content' = c
    /\ envelope' = PeonyResponse(c, resp_headers, url, req_kwargs)
    /\ session' = "closed"
    /\ UNCHANGED <<json_arg, json, url, req_kwargs, status, body,
                   resp_headers, exc, raised_at>>

\* leaving the two async with blocks with an exception
Raise(f) ==
    /\ rpc' = "raised"
    /\ exc' = f
    /\ raised_at' = rpc
    /\ session' = "closed"
    /\ UNCHANGED <<json_arg, json, url, req_kwargs, status, body,
                   resp_headers, content, envelope>>

\* content = await response.json(loads=self._loads), the body decodable
JsonDecoded ==
    /\ rpc = "json"
    /\ body \in Decodable
    /\ Return([decoded |-> TRUE, raw |-> body])

\* await response.json(loads=self._loads) raises what loads raises
JsonFails ==
    /\ rpc = "json"
    /\ body \notin Decodable
    /\ Raise(Other("ValueError"))

\* content = await response.text()
TextRead ==
    /\ rpc = "text"
    /\ Return([decoded |-> FALSE, raw |-> body])

\* await exceptions.throw(response)
Throw(r) ==
    /\ rpc = "throw"
    /\ Raise(throw(status, r))

\* an await of request raises instead of returning
AwaitFails(k) ==
    /\ rpc \in {"sending", "json", "text", "throw"}
    /\ Raise(Other(k))

RequestIdle ==
    /\ rpc = "idle"
    /\ json_arg = "unset"
    /\ json = "False"
    /\ url = <<>>
    /\ req_kwargs = NoEnvelope.request
    /\ session = "none"
    /\ status = 0
    /\ body = "none"
    /\ resp_headers = "none"
    /\ content = NoContent
    /\ envelope = NoEnvelope
    /\ exc = NoFailure
    /\ raised_at = "none"

NextRequest ==
    \/ \E m \in Methods, u \in Urls, h \in HeaderArgs, j \in JsonArgs :
           Request(m, u, h, j) /\ UNCHANGED otherThanRequest
    \/ \E st \in Statuses, b \in Bodies, h \in RespHeaders :
           Respond(st, b, h) /\ UNCHANGED otherThanRequest
    \/ JsonDecoded /\ UNCHANGED otherThanRequest
    \/ JsonFails /\ UNCHANGED otherThanRequest
    \/ TextRead /\ UNCHANGED otherThanRequest
    \/ \E r \in ResetIns : Throw(r) /\ UNCHANGED otherThanRequest
    \/ \E k \in AwaitFailures : AwaitFails(k) /\ UNCHANGED otherThanRequest

----------------------------------------------------------------------------
(***************************************************************************)
(* client.py: BasePeonyClient.__init__ and BasePeonyClient.__getitem__     *)
(***************************************************************************)

\* Python's None among values that are otherwise strings
None == <<"None">>

\* a key that a dict given to client[...] does not have
Absent == <<"absent">>

\* keys = ['api', 'version', 'suffix', 'base_url']
keys == <<"api", "version", "suffix", "base_url">>

\* the replacement fields a template can hold; only {api} and {version}
\* are given to format
Fields == {"{api}", "{version}", "{other}"}

\* base-url templates: the shape of general.twitter_base_api_url, one that
\* ends with a slash after the version, one without fields that ends with
\* slashes, one with a field format is given no value for
Templates == { <<"h", "{api}", "/", "{version}">>,
               <<"h", "{api}", "/", "{version}", "/">>,
               <<"h", "/", "/">>,
               <<"h", "{other}", "{api}">> }

ApiNames == { <<"a">>, <<"s">> }
Versions == { <<"1">>, <<>> }
Suffixes == { JsonSuffix, <<>> }
StreamingApis == { { <<"s">> } }

\* the values a caller puts at position i of a tuple or list key
Elements(i) ==
    CASE i = 1 -> ApiNames \cup {None}
      [] i = 2 -> Versions \cup {None}
      [] i = 3 -> { <<".", "x">>, None }
      [] i = 4 -> { <<"g", "{version}", "/", "{api}", "/">>, None }
      [] OTHER -> { <<"z">> }

RECURSIVE Items(_)
\* the element lists of length n
Items(n) ==
    IF n = 0 THEN { <<>> }
    ELSE { Append(s, e) : s \in Items(n - 1), e \in Elements(n) }

\* a dict key: the values under the four keys, Absent for a missing key
DictItems ==
    { <<a, v, x, b>> : a \in ApiNames \cup {Absent},
                       v \in { <<"2">>, None, Absent },
                       x \in { <<".", "x">>, Absent },
                       b \in { <<"g", "{version}", "/", "{api}", "/">>,
                               None, Absent } }

\* the objects given to client[...]
Keys ==
    { [kind |-> "str", items |-> <<a>>] : a \in ApiNames \cup { <<>> } }
    \cup { [kind |-> k, items |-> s] :
             k \in {"tuple", "list", "set"},
             s \in UNION { Items(n) : n \in 0 .. MaxKeyLen } }
    \cup { [kind |-> "dict", items |-> d] : d \in DictItems }

NoKey == [kind |-> "none", items |-> <<>>]
NoPath == [kind |-> "none", base |-> <<>>, suffix |-> <<>>]
Error(e) == [kind |-> e, base |-> <<>>, suffix |-> <<>>]
PathClasses == {"APIPath", "StreamingAPIPath"}

\* defaults = (None, self.api_version, self._suffix, self.base_url)
defaults == <<None, api_version, suffix, base_url>>

Min(a, b) == IF a < b THEN a ELSE b

\* padding that is one None short
padding_one_short(items) ==
    [i \in 1 .. (Len(keys) - Len(items) - 1) |-> None]

\* padding = (None,) * (len(keys) - len(values))
padding(items) == [i \in 1 .. (Len(keys) - Len(items)) |-> None]

\* values += padding, when there are fewer values than keys
padded(items) ==
    IF Len(items) < Len(keys) THEN items \o padding(items) ELSE items

\* zip(values, defaults)
zip(values) ==
    [i \in 1 .. Min(Len(values), Len(defaults)) |-> <<values[i], defaults[i]>>]

\* [default if value is None else value
\*  for value, default in zip(values, defaults)
\*  if (value, default) != (None, None)]
with_defaults(values) ==
    LET kept == SelectSeq(zip(values), LAMBDA p : p # <<None, None>>)
    IN  [i \in 1 .. Len(kept) |->
            IF kept[i][1] = None THEN kept[i][2] ELSE kept[i][1]]

\* the if/elif chain without its isinstance(values, set) branch: a set is
\* handled as a tuple is
values_of_set_as_sequence(k) ==
    CASE k.kind = "dict" ->
            IF \E i \in 1 .. Len(keys) : k.items[i] = Absent
            THEN [error |-> "KeyError", values |-> <<>>]
            ELSE [error |-> "none", values |-> k.items]
      [] k.kind = "str" ->
            [error |-> "none", values |-> k.items \o Tail(defaults)]
      [] k.kind \in {"tuple", "list", "set"} /\ k.items # <<>> ->
            [error |-> "none", values |-> with_defaults(padded(k.items))]
      [] OTHER -> [error |-> "none", values |-> k.items]

\* the if/elif chain: the error it raises, or the list it leaves in values
values_of(k) ==
    CASE k.kind = "dict" ->
            IF \E i \in 1 .. Len(keys) : k.items[i] = Absent
            THEN [error |-> "KeyError", values |-> <<>>]
            ELSE [error |-> "none", values |-> k.items]
      [] k.kind = "set" -> [error |-> "TypeError", values |-> <<>>]
      [] k.kind = "str" ->
            [error |-> "none", values |-> k.items \o Tail(defaults)]
      [] k.kind \in {"tuple", "list"} /\ k.items # <<>> ->
            [error |-> "none", values |-> with_defaults(padded(k.items))]
      [] OTHER -> [error |-> "none", values |-> k.items]

\* the caller's object after the call: values += padding extends a list in
\* place and gives a new tuple
key_after(k) ==
    IF k.kind = "list" /\ k.items # <<>>
    THEN [kind |-> "list", items |-> padded(k.items)]
    ELSE k

\* an unpacking that fills what is missing with the defaults
unpacks_filled(values) ==
    IF Len(values) < Len(keys)
    THEN values \o SubSeq(defaults, Len(values) + 1, Len(keys))
    ELSE values

\* api, version, suffix, base_url = values: the four values, or <<>> when
\* values does not hold exactly four
unpacks(values) == IF Len(values) = Len(keys) THEN values ELSE <<>>

\* str(value), as format applies it to a field's value
str(v) == IF v = None THEN <<"N", "o", "n", "e">> ELSE v

RECURSIVE format(_, _, _)
\* template.format(api=api, version=version), the template without
\* fields other than {api} and {version}
format(t, api, version) ==
    IF t = <<>> THEN <<>>
    ELSE (CASE Head(t) = "{api}" -> str(api)
            [] Head(t) = "{version}" -> str(version)
            [] OTHER -> <<Head(t)>>) \o format(Tail(t), api, version)

\* a strip of one trailing slash only
rstrip_once(s) ==
    IF s # <<>> /\ s[Len(s)] = "/" THEN SubSeq(s, 1, Len(s) - 1) ELSE s

RECURSIVE rstrip(_)
\* s.rstrip('/')
rstrip(s) ==
    IF s # <<>> /\ s[Len(s)] = "/" THEN rstrip(SubSeq(s, 1, Len(s) - 1)) ELSE s

\* base_url.format(api=api, version=version).rstrip('/')
formatted(t, api, version) == rstrip(format(t, api, version))

\* the two classes taken for one another
path_class_swapped(api) ==
    IF api \in streaming_apis THEN "APIPath" ELSE "StreamingAPIPath"

\* the class of the path object: api in self.streaming_apis
path_class(api) ==
    IF api \in streaming_apis THEN "StreamingAPIPath" ELSE "APIPath"

\* client[k]: the path object returned, or the error raised
getitem(k) ==
    LET v == values_of(k)
        u == unpacks(v.values)
    IN  IF v.error # "none" THEN Error(v.error)
        ELSE IF u = <<>> THEN Error("ValueError")
        ELSE IF u[4] = None THEN Error("AttributeError")
        ELSE IF \E i \in 1 .. Len(u[4]) : u[4][i] = "{other}"
             THEN Error("KeyError")
        ELSE [kind |-> path_class(u[1]),
              base |-> formatted(u[4], u[1], u[2]),
              suffix |-> u[3]]

\* BasePeonyClient.__init__ with its optional arguments
Construct(v, x, b, s) ==
    /\ cpc = "new"
    /\ cpc' = "ready"
    /\ api_version' = v
    /\ suffix' = x
    /\ base_url' = b
    /\ streaming_apis' = s
    /\ UNCHANGED <<arg, key, path>>

\* client[k]
GetItem(k) ==
    /\ cpc = "ready"
    /\ arg' = k
    /\ key' = key_after(k)
    /\ path' = getitem(k)
    /\ UNCHANGED <<cpc, api_version, suffix, base_url, streaming_apis>>

ClientNew ==
    /\ cpc = "new"
    /\ api_version = <<>>
    /\ suffix = <<>>
    /\ base_url = <<>>
    /\ streaming_apis = {}
    /\ arg = NoKey
    /\ key = NoKey
    /\ path = NoPath

NextClient ==
    \/ \E v \in Versions, x \in Suffixes, b \in Templates, s \in StreamingApis :
           Construct(v, x, b, s) /\ UNCHANGED otherThanClient
    \/ \E k \in Keys : GetItem(k) /\ UNCHANGED otherThanClient

----------------------------------------------------------------------------
(***************************************************************************)
(* client.py: PeonyClient.get_tasks and PeonyClient.get_task               *)
(***************************************************************************)

TaskNames == {"t1", "t2"}
StreamNames == {"e1"}

NoTaskResult == [kind |-> "none", value |-> "none"]

\* self.<name> for a name the instance has no attribute of: __getattr__
\* answers with self[name]
getattr_missing(name) == getitem([kind |-> "str", items |-> <<name>>])

\* self._streams where no event stream was attached to the class
self_streams == getattr_missing(<<"_", "s", "t", "r", "e", "a", "m", "s">>)

\* self.tasks: the instance has no such attribute
self_tasks == getattr_missing(<<"t", "a", "s", "k", "s">>)

\* get_tasks: the tasks of the task functions, extended by the tasks of the
\* event streams when self._streams is an EventStreams
get_tasks ==
    IF has_streams THEN task_funcs \o stream_tasks ELSE task_funcs

\* bool(obj) of what __getitem__ returned: an object is true
bool(p) == p.kind \in PathClasses

\* get_task: the only task, or the error raised
get_task ==
    LET tasks == get_tasks
    IN  IF ~has_streams /\ self_streams.kind \notin PathClasses
        THEN [kind |-> self_streams.kind, value |-> "none"]
        ELSE IF Len(tasks) = 1 THEN [kind |-> "task", value |-> tasks[1]]
        ELSE IF self_tasks.kind \notin PathClasses
             THEN [kind |-> self_tasks.kind, value |-> "none"]
        ELSE IF bool(self_tasks)
             THEN [kind |-> "RuntimeError", value |-> "more than one task"]
        ELSE [kind |-> "RuntimeError", value |-> "no tasks"]

\* a function of the class is decorated with peony.task
AttachTask(t) ==
    /\ Len(task_funcs) < MaxTasks
    /\ task_funcs' = Append(task_funcs, t)
    /\ UNCHANGED <<has_streams, stream_tasks, task_result>>

\* PeonyClient.event_stream: cls._streams becomes an EventStreams holding
\* the stream
AttachStream(e) ==
    /\ Len(stream_tasks) < MaxTasks
    /\ has_streams' = TRUE
    /\ stream_tasks' = Append(stream_tasks, e)
    /\ UNCHANGED <<task_funcs, task_result>>

\* client.get_task()
GetTask ==
    /\ cpc = "ready"
    /\ task_result' = get_task
    /\ UNCHANGED <<task_funcs, has_streams, stream_tasks>>

TasksNone ==
    /\ task_funcs = <<>>
    /\ has_streams = FALSE
    /\ stream_tasks = <<>>
    /\ task_result = NoTaskResult

NextTasks ==
    \/ \E v \in Versions, x \in Suffixes, b \in Templates, s \in StreamingApis :
           Construct(v, x, b, s) /\ UNCHANGED otherThanClient
    \/ \E t \in TaskNames : AttachTask(t) /\ UNCHANGED otherThanTasks
    \/ \E e \in StreamNames : AttachStream(e) /\ UNCHANGED otherThanTasks
    \/ GetTask /\ UNCHANGED otherThanTasks

----------------------------------------------------------------------------
(***************************************************************************)
(* utils.py: JSONObject, a dict whose items read as attributes             *)
(***************************************************************************)

\* "items" is also the name of a method of dict
JsonKeys == {"key", "id", "items"}
JsonValues == {"True", "False"}
Missing == "missing"

\* the names the class dict gives every instance
DictAttributes == {"items", "update", "pop", "clear", "setdefault"}

Contents == [JsonKeys -> JsonValues \cup {Missing}]
Empty == [k \in JsonKeys |-> Missing]

\* obj[k]: dict.__getitem__
dict_getitem(o, k) ==
    IF o[k] # Missing THEN [kind |-> "value", value |-> o[k]]
    ELSE [kind |-> "KeyError", value |-> k]

\* obj.k: the attributes of the class are found first, __getattr__ is
\* called for the other names only
object_getattr(o, k) ==
    IF k \in DictAttributes THEN [kind |-> "method", value |-> k]
    ELSE IF o[k] # Missing THEN dict_getitem(o, k)
    ELSE [kind |-> "AttributeError", value |-> k]

\* JSONObject(**d)
NewObject(d) ==
    /\ obj' = d
    /\ built' = d
    /\ outcome' = "built"

\* obj.k = v, del obj.k, obj[k] = v, del obj[k]: all are __setattr__
SetAttr(k, v) ==
    /\ outcome # "none"
    /\ outcome' = "AttributeError"
    /\ UNCHANGED <<obj, built>>

\* obj.update({k: v}): dict.update, which stores without __setitem__
Update(k, v) ==
    /\ outcome # "none"
    /\ obj' = [obj EXCEPT ![k] = v]
    /\ outcome' = "returned"
    /\ UNCHANGED built

\* obj.pop(k): dict.pop
Pop(k) ==
    /\ outcome # "none"
    /\ obj' = [obj EXCEPT ![k] = Missing]
    /\ outcome' = IF obj[k] = Missing THEN "KeyError" ELSE "returned"
    /\ UNCHANGED built

\* obj.clear(): dict.clear
Clear ==
    /\ outcome # "none"
    /\ obj' = Empty
    /\ outcome' = "returned"
    /\ UNCHANGED built

\* obj.setdefault(k, v): dict.setdefault
SetDefault(k, v) ==
    /\ outcome # "none"
    /\ obj' = IF obj[k] = Missing THEN [obj EXCEPT ![k] = v] ELSE obj
    /\ outcome' = "returned"
    /\ UNCHANGED built

NoObject ==
    /\ obj = Empty
    /\ built = Empty
    /\ outcome = "none"

NextJson ==
    \/ \E d \in Contents : NewObject(d) /\ UNCHANGED otherThanJson
    \/ \E k \in JsonKeys, v \in JsonValues :
           SetAttr(k, v) /\ UNCHANGED otherThanJson
    \/ \E k \in JsonKeys, v \in JsonValues :
           Update(k, v) /\ UNCHANGED otherThanJson
    \/ \E k \in JsonKeys : Pop(k) /\ UNCHANGED otherThanJson
    \/ Clear /\ UNCHANGED otherThanJson
    \/ \E k \in JsonKeys, v \in JsonValues :
           SetDefault(k, v) /\ UNCHANGED otherThanJson

----------------------------------------------------------------------------
(***************************************************************************)
(* utils.py: PeonyResponse, which forwards to the response it wraps        *)
(***************************************************************************)

\* "headers" is a member a payload can have and an attribute of the instance
MemberNames == {"x", "headers"}
MemberValues == {"v1", "v2"}
Chars == {"a", "b"}
EnvHeaders == {"h1", "h2"}
EnvUrls == {"u1", "u2"}
EnvRequests == {"r1", "r2"}

SeqsUpTo(S, n) == UNION { [1 .. m -> S] : m \in 0 .. n }

\* the response a PeonyResponse wraps: a decoded object (a JSONObject, keys
\* in insertion order), a decoded array, or the text of the body
DictPayloads ==
    { [type |-> "dict", keys |-> ks, items |-> vs] :
        <<ks, vs>> \in
            { kv \in SeqsUpTo(MemberNames, MaxMembers)
                         \X SeqsUpTo(MemberValues, MaxMembers) :
                /\ Len(kv[1]) = Len(kv[2])
                /\ \A i, j \in 1 .. Len(kv[1]) :
                       kv[1][i] = kv[1][j] => i = j } }
ListPayloads ==
    { [type |-> "list", keys |-> <<>>, items |-> vs] :
        vs \in SeqsUpTo(MemberValues, MaxMembers) }
StrPayloads ==
    { [type |-> "str", keys |-> <<>>, items |-> cs] :
        cs \in SeqsUpTo(Chars, MaxMembers) }
Payloads == DictPayloads \cup ListPayloads \cup StrPayloads
NoPayload == [type |-> "none", keys |-> <<>>, items |-> <<>>]

\* what is given between the brackets: a string or an integer
StrKey(s) == [type |-> "str", s |-> s, i |-> 0]
IntKey(i) == [type |-> "int", s |-> "", i |-> i]
NoIndex == [type |-> "none", s |-> "", i |-> 0]
Indexes ==
    { StrKey(s) : s \in MemberNames \cup {"y"} }
        \cup { IntKey(i) : i \in -1 .. MaxMembers }

\* the names read as attributes
AttrNames == {"response", "headers", "url", "request", "x", "y"}
OwnAttrs == {"response", "headers", "url", "request"}

\* what an operation gives: a value, a sequence, a number, a response, or
\* the exception class it raises
Gives(kind, v, q, n, p) ==
    [kind |-> kind, value |-> v, seq |-> q, n |-> n, payload |-> p]
Nothing == Gives("none", "", <<>>, 0, NoPayload)
GivesValue(v) == Gives("value", v, <<>>, 0, NoPayload)
GivesSeq(q) == Gives("seq", "", q, 0, NoPayload)
GivesInt(n) == Gives("int", "", <<>>, n, NoPayload)
GivesPayload(p) == Gives("payload", "", <<>>, 0, p)
Raises(e) == Gives(e, "", <<>>, 0, NoPayload)

\* response[k] of a dict, a list or a str
payload_getitem(p, k) ==
    IF p.type = "dict"
    THEN IF k.type = "str" /\ \E i \in 1 .. Len(p.keys) : p.keys[i] = k.s
         THEN GivesValue(p.items[CHOOSE i \in 1 .. Len(p.keys) :
                                     p.keys[i] = k.s])
         ELSE Raises("KeyError")
    ELSE IF k.type # "int" THEN Raises("TypeError")
    ELSE LET at == IF k.i < 0 THEN k.i + Len(p.items) ELSE k.i
         IN  IF at >= 0 /\ at < Len(p.items)
             THEN GivesValue(p.items[at + 1])
             ELSE Raises("IndexError")

\* iter(response): the keys of a dict, the elements of a list or a str
payload_iter(p) ==
    GivesSeq(IF p.type = "dict" THEN p.keys ELSE p.items)

\* len(response)
payload_len(p) == GivesInt(Len(p.items))

RECURSIVE joined(_, _, _)
joined(p, i, sep) ==
    IF i > Len(p.items) THEN <<>>
    ELSE (IF i > 1 THEN <<sep>> ELSE <<>>)
         \o (IF p.type = "dict" THEN <<p.keys[i], ": ">> ELSE <<>>)
         \o <<p.items[i]>>
         \o joined(p, i + 1, sep)

\* repr(response)
payload_repr(p) ==
    GivesSeq(CASE p.type = "dict" -> <<"{">> \o joined(p, 1, ", ") \o <<"}">>
               [] p.type = "list" -> <<"[">> \o joined(p, 1, ", ") \o <<"]">>
               [] OTHER -> <<"'">> \o p.items \o <<"'">>)

\* str(response): a str is its own string form
payload_str(p) ==
    IF p.type = "str" THEN GivesSeq(p.items) ELSE payload_repr(p)

\* getattr(response, nm): a member of a decoded object reads as an attribute
payload_getattr(p, nm) ==
    IF p.type = "dict" /\ \E i \in 1 .. Len(p.keys) : p.keys[i] = nm
    THEN payload_getitem(p, StrKey(nm))
    ELSE Raises("AttributeError")

\* the attribute lookup with the forwarding tried before the instance's own
\* attributes
response_getattr_forward_first(e, nm) ==
    IF payload_getattr(e.response, nm).kind = "value"
    THEN payload_getattr(e.response, nm)
    ELSE IF nm = "response" THEN GivesPayload(e.response)
    ELSE IF nm \in OwnAttrs THEN GivesValue(e[nm])
    ELSE payload_getattr(e.response, nm)

\* envelope.nm: the attributes __init__ set are found on the instance,
\* __getattr__ forwards the other names to the response
response_getattr(e, nm) ==
    IF nm = "response" THEN GivesPayload(e.response)
    ELSE IF nm \in OwnAttrs THEN GivesValue(e[nm])
    ELSE payload_getattr(e.response, nm)

\* PeonyResponse.__getitem__
response_getitem(e, k) == payload_getitem(e.response, k)

\* PeonyResponse.__iter__
response_iter(e) == payload_iter(e.response)

\* PeonyResponse.__str__
response_str(e) == payload_str(e.response)

\* PeonyResponse.__repr__
response_repr(e) == payload_repr(e.response)

\* PeonyResponse.__len__
response_len(e) == payload_len(e.response)

\* an assignment that is refused
response_setattr_refused(e, nm, v) == e

\* envelope.nm = v: the class defines no __setattr__, the attribute of the
\* instance is replaced
response_setattr(e, nm, v) == [e EXCEPT ![nm] = v]

\* response.update({k: v}) of a decoded object
payload_update(p, k, v) ==
    IF \E i \in 1 .. Len(p.keys) : p.keys[i] = k
    THEN [p EXCEPT !.items[CHOOSE i \in 1 .. Len(p.keys) : p.keys[i] = k] = v]
    ELSE [p EXCEPT !.keys = Append(@, k), !.items = Append(@, v)]

Did(op, k, nm, res) == [op |-> op, key |-> k, name |-> nm, res |-> res]

\* a read operation: the instance is left as it is
Read(op, k, nm, res) ==
    /\ last.op # "none"
    /\ last' = Did(op, k, nm, res)
    /\ UNCHANGED env

\* PeonyResponse(response=p, headers=h, url=u, request=r)
NewEnvelope(p, h, u, r) ==
    /\ env' = PeonyResponse(p, h, u, r)
    /\ last' = Did("new", NoIndex, "", Nothing)

\* envelope[k]
Index(k) == Read("getitem", k, "", response_getitem(env, k))

\* iter(envelope)
Iterate == Read("iter", NoIndex, "", response_iter(env))

\* len(envelope)
Length == Read("len", NoIndex, "", response_len(env))

\* str(envelope)
Str == Read("str", NoIndex, "", response_str(env))

\* repr(envelope)
Repr == Read("repr", NoIndex, "", response_repr(env))

\* envelope.nm
GetAttr(nm) == Read("getattr", NoIndex, nm, response_getattr(env, nm))

\* envelope.nm = v for headers, url and request
AssignAttr(nm, v) ==
    /\ last.op # "none"
    /\ env' = response_setattr(env, nm, v)
    /\ last' = Did("setattr", NoIndex, nm, GivesValue(v))

\* envelope.response = p
AssignResponse(p) ==
    /\ last.op # "none"
    /\ env' = response_setattr(env, "response", p)
    /\ last' = Did("setattr", NoIndex, "response", GivesPayload(p))

\* envelope.update({k: v}): update is no attribute of the instance, so
\* __getattr__ gives the bound method of the decoded object
CallUpdate(k, v) ==
    /\ last.op # "none"
    /\ env.response.type = "dict"
    /\ Len(payload_update(env.response, k, v).keys) <= MaxMembers
    /\ env' = [env EXCEPT !.response = payload_update(@, k, v)]
    /\ last' = Did("call", StrKey(k), "update", GivesValue(v))

NoInstance ==
    /\ env = PeonyResponse(NoPayload, "", "", "")
    /\ last = Did("none", NoIndex, "", Nothing)

NextEnv ==
    \/ \E p \in Payloads, h \in EnvHeaders, u \in EnvUrls, r \in EnvRequests :
           NewEnvelope(p, h, u, r) /\ UNCHANGED otherThanEnv
    \/ \E k \in Indexes : Index(k) /\ UNCHANGED otherThanEnv
    \/ Iterate /\ UNCHANGED otherThanEnv
    \/ Length /\ UNCHANGED otherThanEnv
    \/ Str /\ UNCHANGED otherThanEnv
    \/ Repr /\ UNCHANGED otherThanEnv
    \/ \E nm \in AttrNames : GetAttr(nm) /\ UNCHANGED otherThanEnv
    \/ \E v \in EnvHeaders : AssignAttr("headers", v) /\ UNCHANGED otherThanEnv
    \/ \E v \in EnvUrls : AssignAttr("url", v) /\ UNCHANGED otherThanEnv
    \/ \E v \in EnvRequests :
           AssignAttr("request", v) /\ UNCHANGED otherThanEnv
    \/ \E p \in Payloads : AssignResponse(p) /\ UNCHANGED otherThanEnv
    \/ \E k \in MemberNames, v \in MemberValues :
           CallUpdate(k, v) /\ UNCHANGED otherThanEnv

----------------------------------------------------------------------------
(***************************************************************************)
(* utils.py, client.py: calls of error_handler(request) in flight together *)
(* on one event loop; each call's locals are one record                     *)
(***************************************************************************)

CallIds == {"A", "B"}
CallUrls == { <<"u">> \o JsonSuffix, <<"v">> }
CallMethods == {"get"}
CallJsonArgs == {"unset"}
CallHeaderArgs == { {} }
CallStatuses == {200, 404, 429}
CallBodies == {"[]", "<html>"}
CallRespHeaders == {"h1"}
CallResetIns == {Scale}

\* the stages at which a call is suspended inside request
Awaiting == {"sending", "json", "text", "throw"}
Ended == {"returned", "raised"}

NotCalled ==
    [pc |-> "idle", method |-> "none", url |-> <<>>, headers |-> {},
     json |-> "none", req_kwargs |-> NoEnvelope.request, attempts |-> 0,
     sessions |-> 0, status |-> 0, body |-> "none", resp_headers |-> "none",
     delay |-> 0, decode_failed |-> FALSE, raised_at |-> "none",
     envelope |-> NoEnvelope, exc |-> NoFailure]

\* leaving "async with aiohttp.ClientSession()" with the session kept open
aexit_leaking(n) == n

\* leaving "async with aiohttp.ClientSession() as session": the session is
\* closed
aexit(n) == n - 1

\* time.sleep in the place of asyncio.sleep: the event loop is held, every
\* call waits
time_sleep(c) == CallIds

\* await asyncio.sleep(delay): the calls that wait while call c sleeps
asyncio_sleep(c) == {c}

\* call c cannot run because the sleep of another call holds it
blocked(c) ==
    \E d \in CallIds \ {c} :
        calls[d].pc = "sleeping" /\ c \in asyncio_sleep(d)

\* return await request(**kwargs): request prepares its arguments, opens a
\* session and awaits session.request
attempt(r) ==
    [r EXCEPT !.pc = "sending",
              !.req_kwargs = prepare_request(r.method, r.url, r.headers),
              !.attempts = @ + 1,
              !.sessions = @ + 1,
              !.status = 0, !.body = "none", !.resp_headers = "none"]

\* request returns a PeonyResponse, which decorated_request returns
returns(r, c) ==
    [r EXCEPT !.pc = "returned",
              !.sessions = aexit(@),
              !.envelope = PeonyResponse(c, r.resp_headers, r.url,
                                         r.req_kwargs)]

\* request raises f out of its async with blocks; decorated_request
\* handles it with its except clauses
raises(r, f) ==
    LET closed == [r EXCEPT !.sessions = aexit(@), !.raised_at = r.pc]
        react == IF handler_decorator(TRUE) = "decorated_request"
                 THEN except_clause(f) ELSE "raise"
    IN  CASE react = "sleep" ->
                 [closed EXCEPT !.pc = "sleeping", !.delay = sleep_delay(f)]
          [] react = "retry" -> attempt(closed)
          [] OTHER -> [closed EXCEPT !.pc = "raised", !.exc = f]

\* the attempt that follows failure f, if any, is within the bound
within_bound(r, f) ==
    except_clause(f) = "retry" => r.attempts < MaxAttempts

\* the caller calls the decorated request
CallRequest(c, m, u, h, j) ==
    /\ calls[c].pc = "idle"
    /\ ~blocked(c)
    /\ calls' = [calls EXCEPT ![c] =
                   attempt([@ EXCEPT !.method = m, !.url = u, !.headers = h,
                                     !.json = json_default(j)])]

\* the response of call c arrives
CallRespond(c, st, b, h) ==
    /\ calls[c].pc = "sending"
    /\ ~blocked(c)
    /\ calls' = [calls EXCEPT ![c] =
                   [@ EXCEPT !.status = st, !.body = b, !.resp_headers = h,
                             !.pc = IF is_2xx(st)
                                    THEN IF decode_as_json(calls[c].json,
                                                           calls[c].url)
                                         THEN "json" ELSE "text"
                                    ELSE "throw"]]

\* content = await response.json(loads=self._loads), the body decodable
CallJsonDecoded(c) ==
    /\ calls[c].pc = "json"
    /\ ~blocked(c)
    /\ calls[c].body \in Decodable
    /\ calls' = [calls EXCEPT ![c] =
                   returns(@, [decoded |-> TRUE, raw |-> @.body])]

\* await response.json(loads=self._loads) raises what loads raises
CallJsonFails(c) ==
    /\ calls[c].pc = "json"
    /\ ~blocked(c)
    /\ calls[c].body \notin Decodable
    /\ calls' = [calls EXCEPT ![c] =
                   raises([@ EXCEPT !.decode_failed = TRUE],
                          Other("ValueError"))]

\* content = await response.text()
CallTextRead(c) ==
    /\ calls[c].pc = "text"
    /\ ~blocked(c)
    /\ calls' = [calls EXCEPT ![c] =
                   returns(@, [decoded |-> FALSE, raw |-> @.body])]

\* await exceptions.throw(response)
CallThrow(c, r) ==
    /\ calls[c].pc = "throw"
    /\ ~blocked(c)
    /\ calls' = [calls EXCEPT ![c] = raises(@, throw(@.status, r))]

\* an await of request raises: the caller cancels the call, or the
\* transport fails
CallAwaitFails(c, k) ==
    /\ calls[c].pc \in Awaiting
    /\ ~blocked(c)
    /\ calls' = [calls EXCEPT ![c] = raises(@, Other(k))]

\* aiohttp.Timeout(timeout) expires while request is suspended: the await
\* is cancelled and the with block raises asyncio.TimeoutError
CallTimesOut(c) ==
    /\ calls[c].pc \in Awaiting
    /\ ~blocked(c)
    /\ within_bound(calls[c], Timeout)
    /\ calls' = [calls EXCEPT ![c] = raises(@, Timeout)]

\* asyncio.sleep returns and the loop invokes request again
CallWake(c) ==
    /\ calls[c].pc = "sleeping"
    /\ ~blocked(c)
    /\ calls[c].attempts < MaxAttempts
    /\ calls' = [calls EXCEPT ![c] = attempt(@)]

\* the caller cancels the call while it sleeps
CallCancelSleep(c) ==
    /\ calls[c].pc = "sleeping"
    /\ ~blocked(c)
    /\ calls' = [calls EXCEPT ![c] =
                   [@ EXCEPT !.pc = "raised", !.raised_at = "sleeping",
                             !.exc = Other("CancelledError")]]

\* the steps call c can take
StepOf(c) ==
    \/ \E m \in CallMethods, u \in CallUrls, h \in CallHeaderArgs,
          j \in CallJsonArgs : CallRequest(c, m, u, h, j)
    \/ \E st \in CallStatuses, b \in CallBodies, h \in CallRespHeaders :
           CallRespond(c, st, b, h)
    \/ CallJsonDecoded(c)
    \/ CallJsonFails(c)
    \/ CallTextRead(c)
    \/ \E r \in CallResetIns : CallThrow(c, r)
    \/ \E k \in AwaitFailures : CallAwaitFails(c, k)
    \/ CallTimesOut(c)
    \/ CallWake(c)
    \/ CallCancelSleep(c)

NoCalls == calls = [c \in CallIds |-> NotCalled]

NextCalls ==
    \/ \E c \in CallIds, m \in CallMethods, u \in CallUrls,
          h \in CallHeaderArgs, j \in CallJsonArgs :
           CallRequest(c, m, u, h, j) /\ UNCHANGED otherThanCalls
    \/ \E c \in CallIds, st \in CallStatuses, b \in CallBodies,
          h \in CallRespHeaders :
           CallRespond(c, st, b, h) /\ UNCHANGED otherThanCalls
    \/ \E c \in CallIds : CallJsonDecoded(c) /\ UNCHANGED otherThanCalls
    \/ \E c \in CallIds : CallJsonFails(c) /\ UNCHANGED otherThanCalls
    \/ \E c \in CallIds : CallTextRead(c) /\ UNCHANGED otherThanCalls
    \/ \E c \in CallIds, r \in CallResetIns :
           CallThrow(c, r) /\ UNCHANGED otherThanCalls
    \/ \E c \in CallIds, k \in AwaitFailures :
           CallAwaitFails(c, k) /\ UNCHANGED otherThanCalls
    \/ \E c \in CallIds : CallTimesOut(c) /\ UNCHANGED otherThanCalls
    \/ \E c \in CallIds : CallWake(c) /\ UNCHANGED otherThanCalls
    \/ \E c \in CallIds : CallCancelSleep(c) /\ UNCHANGED otherThanCalls

Init ==
    /\ RetryIdle /\ RequestIdle /\ ClientNew /\ TasksNone /\ NoObject
    /\ NoInstance /\ NoCalls

SpecRetry == Init /\ [][NextRetry]_vars

SpecRequest == Init /\ [][NextRequest]_vars

SpecClient == Init /\ [][NextClient]_vars

SpecTasks == Init /\ [][NextTasks]_vars

SpecJson == Init /\ [][NextJson]_vars

SpecEnv == Init /\ [][NextEnv]_vars

SpecCalls == Init /\ [][NextCalls]_vars

----------------------------------------------------------------------------
(***************************************************************************)
(* Properties of the retry wrapper, checked under SpecRetry                *)
(***************************************************************************)

\* C1: with error_handling=False one call invokes the wrapped operation
\* exactly once whatever its outcome; it never sleeps or retries, a result
\* is returned as it is and a failure reaches the caller unchanged.
C1_DisabledInvokesOnce ==
    (~error_handling /\ wpc # "idle") =>
        /\ invocations = 1
        /\ nSleep = 0
        /\ wpc \in {"request", "returned", "raised"}
        /\ wpc = "returned" => result = Value(returned)
        /\ wpc = "raised" => result = Raised(failure)
        /\ wpc = "request" => result = NoResult

\* a call without error handling ended by raising the operation's Timeout
C1_Witness ==
    /\ ~error_handling
    /\ wpc = "raised"
    /\ result = Raised(Timeout)
    /\ invocations = 1

\* C2: with error handling enabled, N Timeout failures followed by a success
\* return that success result unchanged after exactly N+1 invocations and
\* without any sleep.
C2_TimeoutsThenSuccess ==
    (error_handling /\ wpc = "returned" /\ nRateLimited = 0) =>
        /\ invocations = nTimeout + 1
        /\ nSleep = 0
        /\ slept = 0
        /\ result = Value(returned)

\* two Timeout failures, then a success on the third invocation
C2_Witness ==
    /\ error_handling
    /\ wpc = "returned"
    /\ nTimeout = 2
    /\ nRateLimited = 0
    /\ invocations = 3

\* C3 as stated: after RateLimited{reset_in} the wrapper sleeps at least
\* reset_in + 1 seconds, for every reset_in.
C3_WaitsResetInPlusOne ==
    (error_handling /\ wpc = "sleep") =>
        sleep_time(delay) * Scale >= failure.reset_in + Scale

\* C3 amended: after RateLimited{reset_in} the wrapper sleeps
\* int(reset_in) + 1 seconds, reset_in truncated toward zero: always more
\* than reset_in, at least reset_in + 1 when reset_in is a whole number of
\* seconds or negative (6 seconds for reset_in = 5), and the operation is
\* not invoked between the failure and the end of the sleep.
C3_WaitsTruncatedResetInPlusOne ==
    /\ (error_handling /\ wpc = "sleep") =>
        /\ failure.kind = "RateLimited"
        /\ sleep_time(delay) * Scale > failure.reset_in
        /\ (failure.reset_in % Scale = 0 \/ failure.reset_in < 0) =>
               sleep_time(delay) * Scale >= failure.reset_in + Scale
        /\ failure.reset_in = 5 * Scale => sleep_time(delay) >= 6
        /\ invocations = nTimeout + nRateLimited
    /\ (error_handling /\ wpc = "request" /\ failure.kind = "RateLimited") =>
        /\ slept * Scale > failure.reset_in
        /\ slept = sleep_time(delay)
        /\ invocations = nTimeout + nRateLimited + 1

\* the wrapper woke up from the 6 second sleep that follows reset_in = 5
\* and invoked the operation again
C3_Witness ==
    /\ error_handling
    /\ wpc = "request"
    /\ failure = RateLimited(5 * Scale)
    /\ slept = 6
    /\ invocations = 2

\* C4: with error handling enabled, a failure other than Timeout and
\* RateLimited is propagated at once: it is the call's result, the call has
\* ended, nothing was invoked or slept after it.
C4_OtherFailurePropagates ==
    (error_handling /\ nOther > 0) =>
        /\ nOther = 1
        /\ wpc = "raised"
        /\ failure.kind \in OtherFailures
        /\ result = Raised(failure)
        /\ invocations = nTimeout + nRateLimited + 1
        /\ nSleep = nRateLimited

\* a ServerError after one Timeout and one RateLimited ended the call
C4_Witness ==
    /\ error_handling
    /\ wpc = "raised"
    /\ result = Raised(Other("ServerError"))
    /\ nTimeout = 1
    /\ nRateLimited = 1

\* C5: with error handling enabled the call never ends by raising Timeout
\* or RateLimited: it ends with a result or with another failure, and after
\* every Timeout or RateLimited failure another invocation is in flight or
\* the sleep that precedes it is.
C5_NeverRaisesRetriable ==
    error_handling =>
        /\ wpc = "raised" =>
              /\ result.kind = "raised"
              /\ result.failure.kind \notin {"Timeout", "RateLimited"}
        /\ wpc = "returned" => result.kind = "value"
        /\ wpc = "request" => invocations = nTimeout + nRateLimited + 1
        /\ wpc = "sleep" =>
              /\ failure.kind = "RateLimited"
              /\ invocations = nTimeout + nRateLimited

\* a call that met both kinds of retriable failure and then returned
C5_Witness ==
    /\ error_handling
    /\ wpc = "returned"
    /\ nTimeout >= 1
    /\ nRateLimited >= 1

----------------------------------------------------------------------------
(***************************************************************************)
(* Properties of BasePeonyClient.request, checked under SpecRequest        *)
(***************************************************************************)

\* request chose response.json for the body of its 2xx response
ChoseJson ==
    \/ rpc = "json"
    \/ rpc = "returned" /\ content.decoded
    \/ rpc = "raised" /\ raised_at = "json"

\* request chose response.text for the body of its 2xx response
ChoseText ==
    \/ rpc = "text"
    \/ rpc = "returned" /\ ~content.decoded
    \/ rpc = "raised" /\ raised_at = "text"

\* request ended after a response arrived, and not because an await was
\* cancelled or the transport failed
EndedOnResponse ==
    /\ rpc \in {"returned", "raised"}
    /\ status # 0
    /\ rpc = "raised" => exc.kind \notin AwaitFailures

\* C6 as stated: a 2xx body is decoded exactly when json is true, or json is
\* left unset and the url ends with ".json"; json=False given explicitly on
\* such a url gives plain text.
C6_DecodesUnlessExplicitlyFalse ==
    (ChoseJson \/ ChoseText) =>
        (ChoseJson <=>
            \/ json_arg = "True"
            \/ json_arg = "unset" /\ endswith(url, JsonSuffix))

\* C6 amended: a 2xx body is decoded exactly when json is true, or json is
\* False (the default, left unset or given explicitly) and the url ends
\* with ".json"; it is plain text when json is False on another url and
\* whenever json is None.
C6_DecodesUnlessNone ==
    /\ (ChoseJson \/ ChoseText) =>
        /\ 200 <= status /\ status < 300
        /\ ~(ChoseJson /\ ChoseText)
        /\ ChoseJson <=>
              \/ json_arg = "True"
              \/ json_arg \in {"unset", "False"} /\ endswith(url, JsonSuffix)
        /\ json_arg = "None" => ChoseText
    /\ rpc = "returned" =>
        envelope.response = [decoded |-> ChoseJson, raw |-> body]

\* json=False given explicitly on a url that ends with ".json": the body
\* was decoded
C6_Witness ==
    /\ rpc = "returned"
    /\ json_arg = "False"
    /\ endswith(url, JsonSuffix)
    /\ envelope.response = [decoded |-> TRUE, raw |-> body]

\* C7 as stated: request returns an envelope if and only if the status of
\* the response is in [200,300).
C7_EnvelopeIffSuccessStatus ==
    EndedOnResponse =>
        (rpc = "returned" <=> (200 <= status /\ status < 300))

\* C7 amended: request returns an envelope only if the status is in
\* [200,300), and for such a status it returns one unless reading the body
\* fails (loads raises on the body, or the await is cancelled); a 200 on a
\* url ending with ".json", json not None, body decodable, yields an
\* envelope whose response is the decoded body; any status outside
\* [200,300) ends in a raised failure, with no envelope and nothing decoded.
C7_EnvelopeOnlyOnSuccessStatus ==
    (rpc \in {"returned", "raised"} /\ status # 0) =>
        /\ rpc = "returned" =>
              /\ 200 <= status /\ status < 300
              /\ envelope = PeonyResponse(content, resp_headers, url,
                                          req_kwargs)
              /\ content.raw = body
        /\ (/\ rpc = "returned"
            /\ status = 200
            /\ endswith(url, JsonSuffix)
            /\ json # "None") =>
              envelope.response = [decoded |-> TRUE, raw |-> body]
        /\ (rpc = "raised" /\ 200 <= status /\ status < 300) =>
              /\ raised_at \in {"json", "text"}
              /\ exc.kind \notin AwaitFailures =>
                    (raised_at = "json" /\ body \notin Decodable)
        /\ (/\ 200 <= status /\ status < 300
            /\ ChoseJson => body \in Decodable
            /\ rpc = "raised" => exc.kind \notin AwaitFailures) =>
              rpc = "returned"
        /\ ~(200 <= status /\ status < 300) =>
              /\ rpc = "raised"
              /\ raised_at = "throw"
              /\ envelope = NoEnvelope
              /\ content = NoContent

\* a 200 response on a url ending with ".json" gave an envelope with the
\* decoded body
C7_Witness ==
    /\ rpc = "returned"
    /\ status = 200
    /\ endswith(url, JsonSuffix)
    /\ json_arg = "unset"
    /\ envelope.response = [decoded |-> TRUE, raw |-> body]

----------------------------------------------------------------------------
(***************************************************************************)
(* Properties of BasePeonyClient.__getitem__, checked under SpecClient     *)
(***************************************************************************)

\* the key given to client[...] is a tuple or a list of n elements
SequenceKey(n) ==
    /\ arg.kind \in {"tuple", "list"}
    /\ Len(arg.items) = n

\* C8: the base URL handed to the path object that client[...] returns
\* holds no replacement field and does not end with a slash, whatever the
\* accepted key and the template.
C8_BaseUrlResolvedAndStripped ==
    path.kind \in PathClasses =>
        /\ \A i \in 1 .. Len(path.base) : path.base[i] \notin Fields
        /\ path.base # <<>> => path.base[Len(path.base)] # "/"

\* the template ends with a slash after an empty version: both trailing
\* slashes of "ha//" are gone
C8_Witness ==
    /\ path.kind = "APIPath"
    /\ arg = [kind |-> "str", items |-> << <<"a">> >>]
    /\ base_url = <<"h", "{api}", "/", "{version}", "/">>
    /\ api_version = <<>>
    /\ path.base = <<"h", "a">>

\* the path object built from four resolved values
PathOf(f) ==
    IF \E i \in 1 .. Len(f[4]) : f[4][i] = "{other}"
    THEN Error("KeyError")
    ELSE [kind |-> IF f[1] \in streaming_apis THEN "StreamingAPIPath"
                   ELSE "APIPath",
          base |-> rstrip(format(f[4], f[1], f[2])),
          suffix |-> f[3]]

\* C9: a list or tuple of one to four overrides (api, version, suffix,
\* base_url) resolves every missing trailing position to the client's
\* default, so client[(api,)], client[[api]], client[(api, version_default)]
\* and client[api] give the same path object.
C9_TrailingPositionsDefault ==
    \A n \in 1 .. Len(keys) :
        (SequenceKey(n) /\ \A i \in 1 .. n : arg.items[i] # None) =>
            /\ path = PathOf(arg.items \o SubSeq(defaults, n + 1, Len(keys)))
            /\ (arg.items = <<arg.items[1]>>
                \/ arg.items = <<arg.items[1], api_version>>) =>
                  /\ path = getitem([kind |-> "str",
                                     items |-> <<arg.items[1]>>])
                  /\ path = getitem([kind |-> "tuple",
                                     items |-> <<arg.items[1]>>])
                  /\ path = getitem([kind |-> "list",
                                     items |-> <<arg.items[1]>>])
                  /\ path = getitem([kind |-> "tuple",
                                     items |-> <<arg.items[1], api_version>>])

\* client[["s"]] gave the streaming path object with the client's version,
\* suffix and base url
C9_Witness ==
    /\ arg = [kind |-> "list", items |-> << <<"s">> >>]
    /\ api_version = <<"1">>
    /\ base_url = <<"h", "{api}", "/", "{version}">>
    /\ path = [kind |-> "StreamingAPIPath",
               base |-> <<"h", "s", "/", "1">>,
               suffix |-> suffix]

\* C10 as stated: client[()] and client[[]] resolve with the client's
\* defaults and return a path object.
C10_EmptyKeyResolves ==
    (SequenceKey(0) /\ \A i \in 1 .. Len(base_url) : base_url[i] # "{other}") =>
        path.kind \in PathClasses

\* C10 amended: client[()] and client[[]] do not resolve: the empty key is
\* unpacked as it is, which fails with ValueError, and no path object is
\* returned.
C10_EmptyKeyFails ==
    SequenceKey(0) =>
        /\ path = Error("ValueError")
        /\ key = arg

\* client[()] raised ValueError
C10_Witness ==
    /\ cpc = "ready"
    /\ arg = [kind |-> "tuple", items |-> <<>>]
    /\ path.kind = "ValueError"

\* C11: client[...] given a set fails with TypeError for every set,
\* whatever its elements, and returns no path object.
C11_SetKeyRejected ==
    arg.kind = "set" =>
        /\ path = Error("TypeError")
        /\ path.kind \notin PathClasses
        /\ key = arg

\* a set of four values that would resolve as a tuple was rejected
C11_Witness ==
    /\ arg.kind = "set"
    /\ Len(arg.items) = Len(keys)
    /\ \A i \in 1 .. Len(keys) : arg.items[i] # None
    /\ path.kind = "TypeError"

\* the api value of the last client[...], whichever shape supplied it
ResolvedApi == arg.items[1]

\* C12: a resolution returns the streaming path class exactly when the
\* resolved api is in the client's streaming_apis, and the REST path class
\* otherwise, whichever shape of key supplied the api.
C12_StreamingIffInStreamingApis ==
    path.kind \in PathClasses =>
        /\ arg.kind \in {"str", "dict", "tuple", "list"}
        /\ path.kind = "StreamingAPIPath" <=> ResolvedApi \in streaming_apis
        /\ path.kind = "APIPath" <=> ResolvedApi \notin streaming_apis

\* a dict key whose api is a streaming subdomain gave the streaming class
C12_Witness ==
    /\ arg.kind = "dict"
    /\ ResolvedApi = <<"s">>
    /\ ResolvedApi \in streaming_apis
    /\ path.kind = "StreamingAPIPath"

\* C18: client[...] leaves its argument unchanged, a list with fewer than
\* four elements included, so that resolving the same key object again
\* gives the same result.
C18_KeyUnchanged ==
    arg.kind # "none" =>
        /\ key = arg
        /\ getitem(key) = path

----------------------------------------------------------------------------
(***************************************************************************)
(* Properties of PeonyClient.get_task, checked under SpecTasks             *)
(***************************************************************************)

\* get_task ran with the tasks the instance has now, on a client whose
\* attribute access resolves
GetTaskRan ==
    /\ task_result # NoTaskResult
    /\ task_result = get_task
    /\ self_tasks.kind \in PathClasses

\* C19: get_task returns the task when the instance has exactly one, raises
\* RuntimeError "more than one task" when it has two or more and
\* RuntimeError "no tasks" when it has none.
C19_GetTaskMessageMatchesCount ==
    GetTaskRan =>
        /\ Len(get_tasks) = 1 =>
              task_result = [kind |-> "task", value |-> get_tasks[1]]
        /\ Len(get_tasks) >= 2 =>
              task_result = [kind |-> "RuntimeError",
                             value |-> "more than one task"]
        /\ Len(get_tasks) = 0 =>
              task_result = [kind |-> "RuntimeError", value |-> "no tasks"]

----------------------------------------------------------------------------
(***************************************************************************)
(* Properties of JSONObject, checked under SpecJson                        *)
(***************************************************************************)

\* C20: a JSONObject is read-only: whatever operations ran on it, it has the
\* keys and values it was constructed with, a rejected mutation left them as
\* they were, and obj.key is obj['key'] for every key present.
C20_ContentsNeverChange ==
    outcome # "none" =>
        /\ obj = built
        /\ \A k \in JsonKeys :
               obj[k] # Missing => object_getattr(obj, k) = dict_getitem(obj, k)

----------------------------------------------------------------------------
(***************************************************************************)
(* Properties of PeonyResponse, checked under SpecEnv                      *)
(***************************************************************************)

\* C14: indexing, iterating, taking the length of and taking the string
\* forms of a PeonyResponse give what the same operation gives on the
\* response it wraps, for every payload and key, while its headers, url and
\* request attributes give the instance's own fields even when the payload
\* has a member of that name.
C14_ForwardsToResponse ==
    /\ last.op = "getitem" => last.res = payload_getitem(env.response, last.key)
    /\ last.op = "iter" => last.res = payload_iter(env.response)
    /\ last.op = "len" => last.res = payload_len(env.response)
    /\ last.op = "str" => last.res = payload_str(env.response)
    /\ last.op = "repr" => last.res = payload_repr(env.response)
    /\ last.op = "getattr" /\ last.name \in {"headers", "url", "request"} =>
           last.res = GivesValue(env[last.name])

C14_Witness ==
    /\ last.op = "getattr"
    /\ last.name = "headers"
    /\ payload_getattr(env.response, "headers").kind = "value"
    /\ last.res = GivesValue(env.headers)
    /\ last.res # payload_getattr(env.response, "headers")

ReadOps == {"getitem", "iter", "len", "str", "repr", "getattr"}

\* C15 as stated: once constructed, no operation on a PeonyResponse changes
\* its response, headers, url or request.
C15_NoOperationChanges ==
    [][last'.op # "new" => env' = env]_vars

\* C15: the read operations of a PeonyResponse change none of its fields;
\* an assignment to its response, headers, url or request attribute is not
\* refused and replaces that field and no other; a mutating method of the
\* response reached through the forwarding changes the response in place
\* and leaves headers, url and request alone.
C15_ReadsLeaveAssignmentsReplace ==
    [][/\ last'.op \in ReadOps => env' = env
       /\ last'.op = "setattr" =>
              env' = [env EXCEPT ![last'.name] =
                         IF last'.name = "response" THEN last'.res.payload
                         ELSE last'.res.value]
       /\ last'.op = "call" =>
              /\ env'.headers = env.headers
              /\ env'.url = env.url
              /\ env'.request = env.request]_vars

C15_Witness ==
    /\ last.op = "setattr"
    /\ last.name = "headers"
    /\ last.res = GivesValue("h2")
    /\ env.headers = "h2"

----------------------------------------------------------------------------
(***************************************************************************)
(* Properties of the decorated request, checked under SpecCalls            *)
(***************************************************************************)

\* C13: every session request opens is closed before request finishes, on
\* every exit path; under the retry wrapper each attempt has a session of
\* its own, a call has at most one session open at any time and none once
\* it has ended (or while it sleeps between attempts).
C13_SessionsReleased ==
    \A c \in CallIds :
        /\ calls[c].sessions \in {0, 1}
        /\ calls[c].pc \in Awaiting <=> calls[c].sessions = 1
        /\ calls[c].pc \in Ended \cup {"sleeping", "idle"} =>
               calls[c].sessions = 0

C13_Witness ==
    /\ calls["A"].pc = "raised"
    /\ calls["A"].attempts = MaxAttempts
    /\ calls["A"].exc = Other("CancelledError")
    /\ calls["A"].sessions = 0
    /\ calls["B"].pc = "returned"
    /\ calls["B"].attempts = MaxAttempts
    /\ calls["B"].sessions = 0

\* C16 as stated: a 2xx response whose body is to be decoded and cannot be
\* makes the call fail with a Malformed failure.
C16_DecodeFailureIsMalformed ==
    \A c \in CallIds :
        calls[c].decode_failed =>
            /\ calls[c].pc = "raised"
            /\ calls[c].exc = Other("Malformed")

\* C16: a 2xx response whose body is to be decoded and cannot be makes
\* request raise the decode function's own exception (ValueError), which is
\* no Malformed failure and no envelope; the session is closed and the
\* retry wrapper propagates the exception without another attempt.
C16_DecodeFailurePropagatesRaw ==
    \A c \in CallIds :
        calls[c].decode_failed =>
            /\ calls[c].pc = "raised"
            /\ calls[c].raised_at = "json"
            /\ calls[c].exc = Other("ValueError")
            /\ calls[c].exc # Other("Malformed")
            /\ calls[c].envelope = NoEnvelope
            /\ calls[c].sessions = 0
            /\ is_2xx(calls[c].status)
            /\ decode_as_json(calls[c].json, calls[c].url)
            /\ calls[c].body \notin Decodable

C16_Witness ==
    /\ calls["A"].decode_failed
    /\ calls["A"].pc = "raised"
    /\ calls["A"].exc = Other("ValueError")
    /\ calls["A"].attempts = MaxAttempts

\* a step changes the locals of one call only
OneCallMoves ==
    \A c \in CallIds :
        calls'[c] # calls[c] =>
            \A d \in CallIds \ {c} : calls'[d] = calls[d]

\* the arguments of a call stay what the caller gave, and its attempts are
\* counted by its own steps
ArgumentsKept ==
    \A c \in CallIds :
        calls[c].pc # "idle" =>
            /\ calls'[c].method = calls[c].method
            /\ calls'[c].url = calls[c].url
            /\ calls'[c].headers = calls[c].headers
            /\ calls'[c].json = calls[c].json
            /\ calls'[c].attempts \in {calls[c].attempts, calls[c].attempts + 1}

\* a call that has not ended can take a step whatever the other call is
\* doing
NeverHeld ==
    \A c \in CallIds : calls[c].pc \notin Ended => ENABLED StepOf(c)

\* a returned envelope carries the request parameters of its own call
OwnParameters ==
    \A c \in CallIds :
        calls[c].pc = "returned" =>
            /\ calls[c].envelope.request =
                   prepare_request(calls[c].method, calls[c].url,
                                   calls[c].headers)
            /\ calls[c].envelope.url = calls[c].url

\* C17: two calls in flight under the retry wrapper share no mutable state:
\* in every interleaving a step changes one call only, a sleeping or
\* retrying call never holds the other back nor changes its attempts,
\* arguments or result, and a returned envelope carries the request
\* parameters of its own call.
C17_CallsIndependent ==
    /\ [](NeverHeld /\ OwnParameters)
    /\ [][OneCallMoves /\ ArgumentsKept]_vars

C17_Witness ==
    /\ calls["A"].pc = "sleeping"
    /\ calls["B"].pc = "returned"
    /\ calls["B"].attempts = MaxAttempts
    /\ calls["A"].url # calls["B"].url
    /\ calls["B"].envelope.url = calls["B"].url

====
